---- MODULE Spec2Model ----
(***************************************************************************)
(* The supervised training / evaluation loop `train` of the notebook       *)
(* PyTorch_Transfer_Learning_Basics_Final.ipynb, run on either of the two  *)
(* models the notebook builds (Net_Seq with an optimizer over all of its   *)
(* parameters, TransferNet with an optimizer over fineTune.dense only).    *)
(*                                                                         *)
(* The numerical library is abstracted as follows.                         *)
(*  - A parameter block's value is an integer offset from its value at     *)
(*    construction; a batch's gradient is 0 (exactly zero) or 1 (not       *)
(*    zero), the same for every block; NoGrad is Python's None.            *)
(*  - Adam keeps, per parameter it was given, a step count and the sign of *)
(*    its first-moment estimate exp_avg; a step moves the parameter by one *)
(*    unit against that sign, so a parameter whose exp_avg is still zero   *)
(*    is left where it is.                                                 *)
(*  - A DataLoader traversal yields ceil(len/batch_size) batches, each of  *)
(*    batch_size examples but possibly the last; the shuffled order is not *)
(*    observable by the loop and is not modelled.                          *)
(*  - Quotients computed in floating point are kept as exact fractions     *)
(*    [num, den].                                                          *)
(***************************************************************************)
EXTENDS Integers, Sequences, FiniteSets, TLC

\* ------------------------------------------------------------------ bounds
MaxEpochs == 2
MaxBatches == 4
Windows == 2
ExtraBatches == 1

\* ------------------------------------------------------- program constants
batch_size == 4
PrintEvery == 200
PrintAt == 199

NoIndex == -1
NoGrad == -1

VARIABLES
    variant,          \* which model/optimizer pair train is called with
    num_epochs,       \* argument of train
    nTrainExamples,   \* len(trainset)
    nValExamples,     \* len(testloader.dataset)
    lossValues,       \* values the loss function takes on this data
    gradValues,       \* gradient magnitudes backward produces on this data
    pc,               \* position in train
    epoch,            \* loop variable of the outer for
    i,                \* loop variable shared by both inner for loops
    consumed,         \* examples the current traversal has yielded so far
    batchLen,         \* number of examples in `inputs`
    training,         \* model.training
    outputs,          \* result of the last forward pass
    temp_loss,
    loss_sum,
    val_loss,
    correct,
    param,            \* parameter block -> value (offset from construction)
    grad,             \* parameter block -> .grad
    exp_avg,          \* Adam state: sign of the first moment
    opt_step,         \* Adam state: step count (0: no state yet)
    nProgress,        \* progress lines printed so far
    nReports,         \* end-of-epoch lines printed so far
    printed,          \* the line this step printed, NoLine if none
    error,            \* exception that left train, "" if none
    \* history variables, read by the properties only
    batchTrace,       \* operations applied to the current training batch
    batches,          \* training batches fetched so far
    cycles,           \* optimizer steps applied so far
    winSum,           \* sum of the losses of the batches since the last
    winCount,         \*   multiple-of-PrintEvery boundary, and their number
    epochValSum,      \* sum of this epoch's per-batch validation losses
    epochValBatches,  \* validation batches processed in this epoch
    epochValExamples, \* validation examples processed in this epoch
    epochValCorrect,  \* of those, the ones whose arg-max class is the label
    passes            \* passes completed: sequence of "train" / "eval"

config == <<variant, num_epochs, nTrainExamples, nValExamples, lossValues, gradValues>>
modelState == <<param, grad, exp_avg, opt_step>>
stdout == <<nProgress, nReports, printed>>
counts == <<nProgress, nReports>>
history == <<batchTrace, batches, cycles, winSum, winCount, epochValSum,
             epochValBatches, epochValExamples, epochValCorrect, passes>>
vars == <<config, pc, epoch, i, consumed, batchLen, training, outputs, temp_loss,
          loss_sum, val_loss, correct, modelState, stdout, error, history>>

\* ----------------------------------------------------------------- helpers
Min(a, b) == IF a < b THEN a ELSE b

Frac(n, d) == [num |-> n, den |-> d]

\* number of batches of one DataLoader traversal over n examples
NumBatches(n) == (n + batch_size - 1) \div batch_size

Variants == {"Net_Seq", "TransferNet"}

FeatureBlock(v) == IF v = "Net_Seq" THEN "convs" ELSE "pretrained_layers"

\* model.parameters(): every block, all with requires_grad = True
ModelParams(v) == {FeatureBlock(v), "dense"}

\* mutant of OptimParams: the optimizer is built from fineTune.parameters()
OptimParamsAll(v) == ModelParams(v)

\* the parameters handed to optim.Adam
OptimParams(v) == IF v = "Net_Seq" THEN ModelParams(v) ELSE {"dense"}

\* two distinct values of the loss function
Losses == {1, 2}

\* gradient magnitudes: exactly zero, or not
Grads == {0, 1}

\* dataset sizes giving 0..maxBatches batches, the last one full or short
DatasetSizes(maxBatches) ==
    {n \in 0..(maxBatches * batch_size) : n % batch_size \in {0, batch_size - 1}}

\* ------------------------------------------------------- library operations
\* optimizer.zero_grad(): zeroes the .grad of the optimizer's own parameters
\* that have one, and touches no other parameter
zero_grad(g, ps) ==
    [p \in DOMAIN g |-> IF p \in ps /\ g[p] # NoGrad THEN 0 ELSE g[p]]

\* temp_loss.backward(): adds this batch's gradient d[p] into the .grad of
\* every parameter that requires grad (a .grad of None is created)
backward(g, d) ==
    [p \in DOMAIN g |-> IF g[p] = NoGrad THEN d[p] ELSE g[p] + d[p]]

\* Adam's first moment after a step with gradient gr: b1*m + (1-b1)*gr,
\* kept as a sign (both are non-negative here)
NewExpAvg(m, gr) == IF m + gr > 0 THEN 1 ELSE 0

\* the parameters optimizer.step() updates: its own, with a .grad
Stepped(g, ps) == {p \in ps : g[p] # NoGrad}

\* mutant of PrintDue: the test is i % 200 == 0
PrintDueAtZero(idx) == idx % PrintEvery = 0

\* i % 200 == 199
PrintDue(idx) == idx % PrintEvery = PrintAt

\* mutant of Accuracy: divides by len(testloader), the number of batches
AccuracyPerBatch(c, n) == Frac(100 * c, NumBatches(n))

\* 100. * correct / len(testloader.dataset)
Accuracy(c, n) == Frac(100 * c, n)

\* mutant of AverageDivisor: the divisor is the number of batches, i + 1
AverageDivisorBatchCount(idx) == idx + 1

\* the right-hand side of  val_loss /= i
AverageDivisor(idx) == idx

NoError == [type |-> "", at |-> ""]
NoLine == [kind |-> "none", epoch |-> 0, images |-> 0, batch |-> 0,
           loss |-> Frac(0, 1), acc |-> Frac(0, 1)]
NoOutputs == [dropout |-> FALSE, n |-> 0, grad_fn |-> FALSE]

\* -------------------------------------------------------------------- Init
InitRun ==
    /\ pc = "epoch"
    /\ epoch = NoIndex
    /\ i = NoIndex
    /\ consumed = 0
    /\ batchLen = 0
    /\ training = TRUE
    /\ outputs = NoOutputs
    /\ temp_loss = 0
    /\ loss_sum = 0
    /\ val_loss = Frac(0, 1)
    /\ correct = 0
    /\ param = [p \in ModelParams(variant) |-> 0]
    /\ grad = [p \in ModelParams(variant) |-> NoGrad]
    /\ exp_avg = [p \in OptimParams(variant) |-> 0]
    /\ opt_step = [p \in OptimParams(variant) |-> 0]
    /\ nProgress = 0
    /\ nReports = 0
    /\ printed = NoLine
    /\ error = NoError
    /\ batchTrace = <<>>
    /\ batches = 0
    /\ cycles = 0
    /\ winSum = 0
    /\ winCount = 0
    /\ epochValSum = 0
    /\ epochValBatches = 0
    /\ epochValExamples = 0
    /\ epochValCorrect = 0
    /\ passes = <<>>

Init ==
    /\ variant \in Variants
    /\ num_epochs \in 0..MaxEpochs
    /\ nTrainExamples \in DatasetSizes(MaxBatches)
    /\ nValExamples \in DatasetSizes(MaxBatches)
    /\ NumBatches(nTrainExamples) + NumBatches(nValExamples) <= MaxBatches
    /\ lossValues = Losses
    /\ gradValues = Grads
    /\ InitRun

\* long training passes, for the periodic progress line: Windows full windows
\* of PrintEvery batches and ExtraBatches more, or a pass too short to print;
\* either one epoch with varying losses or two epochs with a constant loss
ProgressRuns ==
    {[epochs |-> 1, losses |-> Losses], [epochs |-> 2, losses |-> {1}]}

InitProgress ==
    /\ variant \in Variants
    /\ \E r \in ProgressRuns : num_epochs = r.epochs /\ lossValues = r.losses
    /\ nTrainExamples \in {(Windows * PrintEvery + ExtraBatches) * batch_size,
                            (PrintEvery - ExtraBatches) * batch_size}
    /\ nValExamples = 2 * batch_size
    /\ gradValues = {1}
    /\ InitRun

\* ----------------------------------------------------------------- actions
NextEpoch == IF epoch = NoIndex THEN 0 ELSE epoch + 1

\* mutant of EpochStart: model.train() is called once before the loop, not
\* at the start of every epoch
EpochStartNoTrain ==
    /\ pc = "epoch"
    /\ NextEpoch < num_epochs
    /\ epoch' = NextEpoch
    /\ training' = IF epoch = NoIndex THEN TRUE ELSE training
    /\ loss_sum' = 0
    /\ consumed' = 0
    /\ winSum' = 0
    /\ winCount' = 0
    /\ pc' = "train_iter"
    /\ printed' = NoLine
    /\ UNCHANGED <<config, i, batchLen, outputs, temp_loss, val_loss, correct,
                   modelState, counts, error, batchTrace, batches, cycles,
                   epochValSum, epochValBatches, epochValExamples, epochValCorrect, passes>>

\* for epoch in range(num_epochs):  model.train();  loss_sum = 0.0
EpochStart ==
    /\ pc = "epoch"
    /\ NextEpoch < num_epochs
    /\ epoch' = NextEpoch
    /\ training' = TRUE
    /\ loss_sum' = 0
    /\ consumed' = 0
    /\ winSum' = 0
    /\ winCount' = 0
    /\ pc' = "train_iter"
    /\ printed' = NoLine
    /\ UNCHANGED <<config, i, batchLen, outputs, temp_loss, val_loss, correct,
                   modelState, counts, error, batchTrace, batches, cycles, epochValSum,
                   epochValBatches, epochValExamples, epochValCorrect, passes>>

\* range(num_epochs) is exhausted: train returns
Return ==
    /\ pc = "epoch"
    /\ NextEpoch >= num_epochs
    /\ pc' = "done"
    /\ printed' = NoLine
    /\ UNCHANGED <<config, epoch, i, consumed, batchLen, training, outputs,
                   temp_loss, loss_sum, val_loss, correct, modelState, counts,
                   error, history>>

\* mutant of TrainFetch: the loader drops a short last batch (drop_last)
TrainFetchDropLast ==
    /\ pc = "train_iter"
    /\ consumed + batch_size <= nTrainExamples
    /\ i' = consumed \div batch_size
    /\ batchLen' = batch_size
    /\ consumed' = consumed + batchLen'
    /\ batchTrace' = <<>>
    /\ batches' = batches + 1
    /\ pc' = "zero_grad"
    /\ printed' = NoLine
    /\ UNCHANGED <<config, epoch, training, outputs, temp_loss, loss_sum,
                   val_loss, correct, modelState, counts, error, cycles, winSum,
                   winCount, epochValSum, epochValBatches, epochValExamples,
                   epochValCorrect, passes>>

\* for i, data in enumerate(trainloader, 0):  the next batch
TrainFetch ==
    /\ pc = "train_iter"
    /\ consumed < nTrainExamples
    /\ i' = consumed \div batch_size
    /\ batchLen' = Min(batch_size, nTrainExamples - consumed)
    /\ consumed' = consumed + batchLen'
    /\ batchTrace' = <<>>
    /\ batches' = batches + 1
    /\ pc' = "zero_grad"
    /\ printed' = NoLine
    /\ UNCHANGED <<config, epoch, training, outputs, temp_loss, loss_sum,
                   val_loss, correct, modelState, counts, error, cycles, winSum,
                   winCount, epochValSum, epochValBatches, epochValExamples, epochValCorrect,
                   passes>>

\* mutant of ZeroGrad: the statement is missing from the loop body
ZeroGradMissing ==
    /\ pc = "zero_grad"
    /\ pc' = "forward"
    /\ printed' = NoLine
    /\ UNCHANGED <<config, epoch, i, consumed, batchLen, training, outputs,
                   temp_loss, loss_sum, val_loss, correct, modelState, counts,
                   error, history>>

\* optimizer.zero_grad()
ZeroGrad ==
    /\ pc = "zero_grad"
    /\ grad' = zero_grad(grad, OptimParams(variant))
    /\ batchTrace' = Append(batchTrace, "zero_grad")
    /\ pc' = "forward"
    /\ printed' = NoLine
    /\ UNCHANGED <<config, epoch, i, consumed, batchLen, training, outputs,
                   temp_loss, loss_sum, val_loss, correct, param, exp_avg,
                   opt_step, counts, error, batches, cycles, winSum, winCount,
                   epochValSum, epochValBatches, epochValExamples, epochValCorrect, passes>>

\* outputs = model(inputs)
Forward ==
    /\ pc = "forward"
    /\ outputs' = [dropout |-> training, n |-> batchLen, grad_fn |-> TRUE]
    /\ batchTrace' = Append(batchTrace, "forward")
    /\ pc' = "loss"
    /\ printed' = NoLine
    /\ UNCHANGED <<config, epoch, i, consumed, batchLen, training, temp_loss,
                   loss_sum, val_loss, correct, modelState, counts, error,
                   batches, cycles, winSum, winCount, epochValSum, epochValBatches,
                   epochValExamples, epochValCorrect, passes>>

\* temp_loss = loss(outputs, class_ids)
Loss ==
    /\ pc = "loss"
    /\ \E l \in lossValues : temp_loss' = l
    /\ batchTrace' = Append(batchTrace, "loss")
    /\ pc' = "backward"
    /\ printed' = NoLine
    /\ UNCHANGED <<config, epoch, i, consumed, batchLen, training, outputs,
                   loss_sum, val_loss, correct, modelState, counts, error,
                   batches, cycles, winSum, winCount, epochValSum, epochValBatches,
                   epochValExamples, epochValCorrect, passes>>

\* temp_loss.backward(): this batch's gradient has one magnitude g for every
\* block
Backward ==
    /\ pc = "backward"
    /\ \E g \in gradValues :
          grad' = backward(grad, [p \in ModelParams(variant) |-> g])
    /\ batchTrace' = Append(batchTrace, "backward")
    /\ pc' = "step"
    /\ printed' = NoLine
    /\ UNCHANGED <<config, epoch, i, consumed, batchLen, training, outputs,
                   temp_loss, loss_sum, val_loss, correct, param, exp_avg,
                   opt_step, counts, error, batches, cycles, winSum, winCount,
                   epochValSum, epochValBatches, epochValExamples, epochValCorrect, passes>>

\* optimizer.step()
Step ==
    /\ pc = "step"
    /\ LET ps == Stepped(grad, OptimParams(variant))
           m == [p \in OptimParams(variant) |->
                    IF p \in ps THEN NewExpAvg(exp_avg[p], grad[p]) ELSE exp_avg[p]]
       IN /\ exp_avg' = m
          /\ opt_step' = [p \in OptimParams(variant) |->
                            IF p \in ps THEN opt_step[p] + 1 ELSE opt_step[p]]
          /\ param' = [p \in ModelParams(variant) |->
                            IF p \in ps THEN param[p] - m[p] ELSE param[p]]
    /\ batchTrace' = Append(batchTrace, "step")
    /\ cycles' = cycles + 1
    /\ pc' = "stats"
    /\ printed' = NoLine
    /\ UNCHANGED <<batches, config, epoch, i, consumed, batchLen, training, outputs,
                   temp_loss, loss_sum, val_loss, correct, grad, counts, error,
                   winSum, winCount, epochValSum, epochValBatches,
                   epochValExamples, epochValCorrect, passes>>

\* loss_sum += temp_loss.item();  if i % 200 == 199: print(...); loss_sum = 0.0
Stats ==
    /\ pc = "stats"
    /\ IF PrintDue(i)
         THEN /\ printed' = [kind |-> "progress", epoch |-> epoch + 1,
                              images |-> batch_size, batch |-> i + 1,
                              loss |-> Frac(loss_sum + temp_loss, PrintEvery),
                              acc |-> Frac(0, 1)]
              /\ nProgress' = nProgress + 1
              /\ loss_sum' = 0
         ELSE /\ loss_sum' = loss_sum + temp_loss
              /\ printed' = NoLine
              /\ UNCHANGED nProgress
    /\ IF (i + 1) % PrintEvery = 0
         THEN winSum' = 0 /\ winCount' = 0
         ELSE winSum' = winSum + temp_loss /\ winCount' = winCount + 1
    /\ pc' = "train_iter"
    /\ UNCHANGED <<config, epoch, i, consumed, batchLen, training, outputs,
                   temp_loss, val_loss, correct, modelState, nReports, error,
                   batchTrace, batches, cycles, epochValSum, epochValBatches,
                   epochValExamples, epochValCorrect, passes>>

\* mutant of EvalStart: correct = 0 stands before the epoch loop, not in it
EvalStartKeepCorrect ==
    /\ pc = "train_iter"
    /\ consumed >= nTrainExamples
    /\ training' = FALSE
    /\ val_loss' = Frac(0, 1)
    /\ correct' = IF epoch = 0 THEN 0 ELSE correct
    /\ consumed' = 0
    /\ passes' = Append(passes, "train")
    /\ epochValSum' = 0
    /\ epochValBatches' = 0
    /\ epochValExamples' = 0
    /\ epochValCorrect' = 0
    /\ pc' = "eval_iter"
    /\ printed' = NoLine
    /\ UNCHANGED <<config, epoch, i, batchLen, outputs, temp_loss, loss_sum,
                   modelState, counts, error, batchTrace, batches, cycles, winSum,
                   winCount>>

\* mutant of EvalStart: model.eval() is missing
EvalStartNoEval ==
    /\ pc = "train_iter"
    /\ consumed >= nTrainExamples
    /\ val_loss' = Frac(0, 1)
    /\ correct' = 0
    /\ consumed' = 0
    /\ passes' = Append(passes, "train")
    /\ epochValSum' = 0
    /\ epochValBatches' = 0
    /\ epochValExamples' = 0
    /\ epochValCorrect' = 0
    /\ pc' = "eval_iter"
    /\ printed' = NoLine
    /\ UNCHANGED <<config, epoch, i, batchLen, training, outputs, temp_loss,
                   loss_sum, modelState, counts, error, batchTrace, batches,
                   cycles, winSum, winCount>>

\* trainloader is exhausted:  model.eval();  val_loss = 0;  correct = 0
EvalStart ==
    /\ pc = "train_iter"
    /\ consumed >= nTrainExamples
    /\ training' = FALSE
    /\ val_loss' = Frac(0, 1)
    /\ correct' = 0
    /\ consumed' = 0
    /\ passes' = Append(passes, "train")
    /\ epochValSum' = 0
    /\ epochValBatches' = 0
    /\ epochValExamples' = 0
    /\ epochValCorrect' = 0
    /\ pc' = "eval_iter"
    /\ printed' = NoLine
    /\ UNCHANGED <<config, epoch, i, batchLen, outputs, temp_loss, loss_sum,
                   modelState, counts, error, batchTrace, batches, cycles, winSum,
                   winCount>>

\* mutant of EvalFetch: the validation loop clears the gradients as the
\* training loop does
EvalFetchZeroGrad ==
    /\ pc = "eval_iter"
    /\ consumed < nValExamples
    /\ i' = consumed \div batch_size
    /\ batchLen' = Min(batch_size, nValExamples - consumed)
    /\ consumed' = consumed + batchLen'
    /\ grad' = zero_grad(grad, OptimParams(variant))
    /\ pc' = "val_forward"
    /\ printed' = NoLine
    /\ UNCHANGED <<config, epoch, training, outputs, temp_loss, loss_sum,
                   val_loss, correct, param, exp_avg, opt_step, counts, error,
                   history>>

\* for i, data in enumerate(testloader, 0):  the next batch
EvalFetch ==
    /\ pc = "eval_iter"
    /\ consumed < nValExamples
    /\ i' = consumed \div batch_size
    /\ batchLen' = Min(batch_size, nValExamples - consumed)
    /\ consumed' = consumed + batchLen'
    /\ pc' = "val_forward"
    /\ printed' = NoLine
    /\ UNCHANGED <<config, epoch, training, outputs, temp_loss, loss_sum,
                   val_loss, correct, modelState, counts, error, history>>

\* with torch.no_grad():  outputs = model(inputs)
ValForward ==
    /\ pc = "val_forward"
    /\ outputs' = [dropout |-> training, n |-> batchLen, grad_fn |-> FALSE]
    /\ pc' = "val_metrics"
    /\ printed' = NoLine
    /\ UNCHANGED <<config, epoch, i, consumed, batchLen, training, temp_loss,
                   loss_sum, val_loss, correct, modelState, counts, error,
                   history>>

\* temp_loss = loss(...);  val_loss += temp_loss.item();  correct += (preds == class_ids).sum()
ValMetrics ==
    /\ pc = "val_metrics"
    /\ \E l \in lossValues, c \in 0..outputs.n :
          /\ temp_loss' = l
          /\ val_loss' = Frac(val_loss.num + l, 1)
          /\ correct' = correct + c
          /\ epochValSum' = epochValSum + l
          /\ epochValCorrect' = epochValCorrect + c
    /\ epochValBatches' = epochValBatches + 1
    /\ epochValExamples' = epochValExamples + outputs.n
    /\ pc' = "eval_iter"
    /\ printed' = NoLine
    /\ UNCHANGED <<config, epoch, i, consumed, batchLen, training, outputs,
                   loss_sum, modelState, counts, error, batchTrace, batches, cycles,
                   winSum, winCount, passes>>

\* testloader is exhausted:  val_loss /= i
Average ==
    /\ pc = "eval_iter"
    /\ consumed >= nValExamples
    /\ passes' = Append(passes, "eval")
    /\ IF i = NoIndex
         THEN /\ error' = [type |-> "UnboundLocalError", at |-> "average"]
              /\ pc' = "failed"
              /\ UNCHANGED val_loss
         ELSE IF AverageDivisor(i) = 0
           THEN /\ error' = [type |-> "ZeroDivisionError", at |-> "average"]
                /\ pc' = "failed"
                /\ UNCHANGED val_loss
           ELSE /\ val_loss' = Frac(val_loss.num, AverageDivisor(i))
                /\ pc' = "report"
                /\ UNCHANGED error
    /\ printed' = NoLine
    /\ UNCHANGED <<config, epoch, i, consumed, batchLen, training, outputs,
                   temp_loss, loss_sum, correct, modelState, counts, batchTrace,
                   batches, cycles, winSum, winCount, epochValSum, epochValBatches,
                   epochValExamples, epochValCorrect>>

\* print(' | Test loss = ... | Test accuracy = ...'.format(val_loss,
\*        100. * correct / len(testloader.dataset)))
Report ==
    /\ pc = "report"
    /\ IF nValExamples = 0
         THEN /\ error' = [type |-> "ZeroDivisionError", at |-> "report"]
              /\ pc' = "failed"
              /\ printed' = NoLine
              /\ UNCHANGED counts
         ELSE /\ printed' = [kind |-> "report", epoch |-> 0, images |-> 0,
                              batch |-> 0, loss |-> val_loss,
                              acc |-> Accuracy(correct, nValExamples)]
              /\ nReports' = nReports + 1
              /\ pc' = "epoch"
              /\ UNCHANGED <<nProgress, error>>
    /\ UNCHANGED <<config, epoch, i, consumed, batchLen, training, outputs,
                   temp_loss, loss_sum, val_loss, correct, modelState, history>>

\* mutant of Raise: the loop body is wrapped in try/except and goes on with
\* the next batch
RaiseSkipBatch ==
    /\ pc \in {"forward", "val_forward"}
    /\ pc' = IF pc = "forward" THEN "train_iter" ELSE "eval_iter"
    /\ printed' = NoLine
    /\ UNCHANGED <<config, epoch, i, consumed, batchLen, training, outputs,
                   temp_loss, loss_sum, val_loss, correct, modelState, counts,
                   error, history>>

\* a forward pass raises (for instance a shape mismatch at x.view): the
\* exception leaves train
Raise ==
    /\ pc \in {"forward", "val_forward"}
    /\ error' = [type |-> "RuntimeError", at |-> pc]
    /\ pc' = "failed"
    /\ printed' = NoLine
    /\ UNCHANGED <<config, epoch, i, consumed, batchLen, training, outputs,
                   temp_loss, loss_sum, val_loss, correct, modelState, counts,
                   history>>

Next ==
    \/ EpochStart
    \/ Return
    \/ TrainFetch
    \/ ZeroGrad
    \/ Forward
    \/ Loss
    \/ Backward
    \/ Step
    \/ Stats
    \/ EvalStart
    \/ EvalFetch
    \/ ValForward
    \/ ValMetrics
    \/ Average
    \/ Report
    \/ Raise

Spec == Init /\ [][Next]_vars

SpecProgress == InitProgress /\ [][Next]_vars

\* ------------------------------------------------------------------ claims
FullCycle == <<"zero_grad", "forward", "loss", "backward", "step">>

IsPrefix(s, t) == Len(s) <= Len(t) /\ \A k \in 1..Len(s) : s[k] = t[k]

\* positions of train inside one training batch, with the number of
\* operations the batch has had when train is there
BatchPosition ==
    [zero_grad |-> 0, forward |-> 1, loss |-> 2, backward |-> 3, step |-> 4,
     stats |-> 5]

InTrainBatch == pc \in {"zero_grad", "forward", "loss", "backward", "step"}

\* C1: every training batch gets, in this order and with nothing else in
\* between, zero_grad, forward, loss, backward and one optimizer step: the
\* operations applied to the current batch are always the prefix of that
\* sequence the position in the loop calls for (so a backward always follows
\* the zero_grad of its own batch), and every fetched batch that is not still
\* being processed (or was cut short by an exception) has had exactly one
\* optimizer step.
C1_BatchCycleOrder ==
    /\ IsPrefix(batchTrace, FullCycle)
    /\ pc \in DOMAIN BatchPosition => Len(batchTrace) = BatchPosition[pc]
    /\ cycles = batches - (IF InTrainBatch \/ (pc = "failed" /\ error.at = "forward")
                             THEN 1 ELSE 0)

\* a batch of the second epoch has completed its cycle
C1_Witness ==
    /\ pc = "stats"
    /\ epoch = 1
    /\ i = 1
    /\ batchTrace = FullCycle
    /\ cycles = NumBatches(nTrainExamples) + 2

\* C2: a training batch's forward pass runs with the model in training mode
\* (dropout active) and a validation batch's forward pass with the model in
\* evaluation mode, in every epoch.
C2_ModeAtForward ==
    /\ pc = "forward" => training
    /\ pc = "loss" => outputs.dropout
    /\ pc = "val_forward" => ~training
    /\ pc = "val_metrics" => ~outputs.dropout

\* a training forward pass of the second epoch, after the first epoch's
\* evaluation pass, has run in training mode
C2_Witness ==
    /\ pc = "loss"
    /\ epoch = 1
    /\ Len(passes) = 2
    /\ outputs.dropout

EvalPositions == {"eval_iter", "val_forward", "val_metrics"}

EvalStepMeasuresOnly ==
    pc \in EvalPositions =>
        /\ param' = param
        /\ grad' = grad
        /\ exp_avg' = exp_avg
        /\ opt_step' = opt_step
        /\ cycles' = cycles
        /\ batchTrace' = batchTrace
        /\ (pc' = "val_metrics" => ~outputs'.grad_fn)

\* C3: no step taken while validation batches are processed changes a model
\* parameter, a gradient accumulator or the optimizer's state, and none is an
\* optimizer step, a gradient clear or a backward; the validation forward
\* pass records no graph to differentiate.
C3_EvalOnlyMeasures == [][EvalStepMeasuresOnly]_vars

\* validation batches have been processed on a model that training changed
\* and whose gradient accumulators are set and not zero
C3_Witness ==
    /\ pc = "eval_iter"
    /\ epochValBatches = 2
    /\ param["dense"] # 0
    /\ grad["dense"] > 0
    /\ opt_step["dense"] > 0

Frozen == "pretrained_layers"

TransferStepOriginal ==
    variant = "TransferNet" =>
        /\ param'[Frozen] = 0
        /\ (pc = "step" /\ pc' = "stats" => param'["dense"] # param["dense"])
        /\ (pc # "step" => param' = param)

TransferStepAmended ==
    variant = "TransferNet" =>
        /\ param'[Frozen] = 0
        /\ (pc = "step" /\ pc' = "stats" =>
               /\ opt_step'["dense"] = opt_step["dense"] + 1
               /\ (exp_avg'["dense"] = 0 => param'["dense"] = param["dense"]))
        /\ (pc # "step" => param' = param)

C5_GradsClearAtBackward ==
    /\ pc = "backward" => \A p \in ModelParams(variant) : grad[p] \in {NoGrad, 0}
    /\ variant = "TransferNet" => grad[Frozen] \in {NoGrad, 0}

\* C6: the validation loss reported at the end of an epoch is the sum of the
\* epoch's per-batch validation losses divided by the number of validation
\* batches processed in the epoch.
C6_ReportedLossIsBatchMean ==
    printed.kind = "report" =>
        printed.loss.num * epochValBatches = epochValSum * printed.loss.den

\* C7: the accuracy reported at the end of an epoch is 100 * (validation
\* examples of the epoch predicted correctly) / (all validation examples);
\* the correct count never exceeds the validation examples processed so far,
\* so the accuracy lies between 0 and 100.
C7_ReportedAccuracy ==
    /\ pc \in EvalPositions =>
          /\ correct = epochValCorrect
          /\ 0 <= correct
          /\ correct <= epochValExamples
    /\ printed.kind = "report" =>
          /\ epochValExamples = nValExamples
          /\ printed.acc.den = nValExamples
          /\ printed.acc.num = 100 * epochValCorrect
          /\ 0 <= printed.acc.num
          /\ printed.acc.num <= 100 * printed.acc.den

\* the second epoch's report, some but not all examples predicted correctly
C7_Witness ==
    /\ printed.kind = "report"
    /\ nReports = 2
    /\ 0 < epochValCorrect
    /\ epochValCorrect < nValExamples

ProgressStep ==
    /\ pc = "stats" /\ pc' = "train_iter" =>
          /\ nProgress' = nProgress + (IF (i + 1) % PrintEvery = 0 THEN 1 ELSE 0)
          /\ (printed'.kind = "progress") = ((i + 1) % PrintEvery = 0)
          /\ (i + 1) % PrintEvery = 0 =>
                /\ winCount + 1 = PrintEvery
                /\ printed'.loss = Frac(winSum + temp_loss, PrintEvery)
                /\ printed'.epoch = epoch + 1
                /\ printed'.batch = i + 1
                /\ printed'.images = batch_size
                /\ loss_sum' = 0
    /\ ~(pc = "stats" /\ pc' = "train_iter") =>
          /\ nProgress' = nProgress
          /\ printed'.kind # "progress"
    /\ pc' = "train_iter" /\ consumed' = 0 => loss_sum' = 0

\* C8: a progress line is printed exactly after the training batches whose
\* 1-based index in the epoch is a multiple of 200; it carries the 1-based
\* epoch number, that batch index, and the sum of the losses of the 200 most
\* recent batches of the epoch divided by 200; the window sum is zero right
\* after the print and at the start of every epoch, so the batches after
\* the last multiple of 200 are not reported and do not reach the next
\* epoch's first window.
C8_ProgressEvery200 == [][ProgressStep]_vars

\* the second window of the second epoch has been reported
C8_Witness ==
    /\ printed.kind = "progress"
    /\ printed.epoch = 2
    /\ printed.batch = 2 * PrintEvery
    /\ nProgress = 2 * Windows

\* a one-epoch run reported a window whose losses were not all the same
C8_WitnessMixedWindow ==
    /\ printed.kind = "progress"
    /\ printed.batch = 2 * PrintEvery
    /\ printed.loss.num = (3 * PrintEvery) \div 2

Terminated == pc \in {"done", "failed"}

\* a validation set on which the evaluation pass and the report raise
\* nothing
ValidationRuns == NumBatches(nValExamples) >= 2

Alternating(seq) ==
    \A k \in 1..Len(seq) : seq[k] = (IF k % 2 = 1 THEN "train" ELSE "eval")

RunShape ==
    /\ Alternating(passes)
    /\ pc = "failed" => error.type = "RuntimeError"
    /\ pc = "eval_iter" /\ Len(passes) % 2 = 1 /\ epochValBatches = 0 =>
          \* a training pass has just ended
          /\ batches = (epoch + 1) * NumBatches(nTrainExamples)
          /\ cycles = batches
    /\ pc = "train_iter" => consumed <= nTrainExamples
    /\ pc = "done" =>
          /\ NextEpoch = num_epochs
          /\ Len(passes) = 2 * num_epochs
          /\ batches = num_epochs * NumBatches(nTrainExamples)
          /\ cycles = num_epochs * NumBatches(nTrainExamples)
          /\ nReports = num_epochs

\* steps train takes for one training batch (the fetch, the five operations
\* and the statistics), one validation batch, one epoch
TrainBatchSteps == Len(FullCycle) + 2
ValBatchSteps == Cardinality(EvalPositions)
EpochSteps ==
    TrainBatchSteps * NumBatches(nTrainExamples)
        + ValBatchSteps * NumBatches(nValExamples) + 4

\* steps left in the current epoch
StepsLeftInEpoch ==
    LET trainLeft == TrainBatchSteps * (NumBatches(nTrainExamples) - NumBatches(consumed))
        valLeft == ValBatchSteps * (NumBatches(nValExamples) - NumBatches(consumed))
        evalPass == 1 + ValBatchSteps * NumBatches(nValExamples) + 2
    IN  CASE pc = "train_iter" -> trainLeft + evalPass
          [] pc \in DOMAIN BatchPosition ->
                 (TrainBatchSteps - 1 - BatchPosition[pc]) + trainLeft + evalPass
          [] pc = "eval_iter" -> valLeft + 2
          [] pc = "val_forward" -> 2 + valLeft + 2
          [] pc = "val_metrics" -> 1 + valLeft + 2
          [] pc = "report" -> 1
          [] OTHER -> 0

\* steps train has left before it returns
StepsLeft ==
    CASE Terminated -> 0
      [] pc = "epoch" -> (num_epochs - NextEpoch) * EpochSteps + 1
      [] OTHER -> StepsLeftInEpoch + (num_epochs - epoch - 1) * EpochSteps + 1

\* C9: with a validation set on which evaluation raises nothing, train
\* terminates: it always has a step to take until it has returned or raised,
\* and every step brings it closer to returning. Unless a batch raised, it
\* returns after num_epochs epochs, each a full training pass followed by a
\* full evaluation pass, having done num_epochs * ceil(S / batch_size)
\* zero_grad/forward/backward/step cycles and printed num_epochs
\* end-of-epoch lines.
C9_TerminatesAfterNEpochs ==
    /\ [](ValidationRuns =>
             /\ RunShape
             /\ StepsLeft >= 0
             /\ Terminated \/ ENABLED Next)
    /\ [][ValidationRuns => StepsLeft' < StepsLeft]_vars

\* two epochs over a training set with a short last batch have returned
C9_Witness ==
    /\ pc = "done"
    /\ num_epochs = 2
    /\ nTrainExamples = 2 * batch_size - 1
    /\ cycles = 4
    /\ nReports = 2

\* C10: with an empty validation set train fails, in the first epoch, with a
\* division by zero at the validation-loss average, whatever the number
\* (one or more) of training batches.
C10_EmptyValidationDividesByZero ==
    nValExamples = 0 /\ nTrainExamples > 0 /\ num_epochs >= 1 =>
        /\ pc \notin {"report", "done"}
        /\ pc = "failed" /\ error.type # "RuntimeError" =>
               error = [type |-> "ZeroDivisionError", at |-> "average"]

\* C11: the running sums are zero at the start of each phase of each epoch:
\* loss_sum is 0 before the first training batch of every epoch, val_loss
\* and correct are 0 before the first validation batch of every epoch. So
\* loss_sum only ever holds losses of the current epoch's training batches,
\* val_loss and correct only what the current epoch's validation batches
\* added, and the numerators of the end-of-epoch line are this epoch's
\* validation totals alone.
C11_SumsResetPerPhase ==
    /\ pc = "train_iter" /\ consumed = 0 => loss_sum = 0
    /\ pc = "eval_iter" /\ consumed = 0 => val_loss = Frac(0, 1) /\ correct = 0
    /\ loss_sum = winSum
    /\ pc \in EvalPositions =>
          /\ val_loss = Frac(epochValSum, 1)
          /\ correct = epochValCorrect
    /\ printed.kind = "report" =>
          /\ val_loss.num = epochValSum
          /\ printed.loss.num = epochValSum
          /\ printed.acc.num = 100 * epochValCorrect

\* the second epoch's validation pass is about to start: the first epoch
\* reported, the training pass left losses in loss_sum, and the validation
\* sums are zero again
C11_Witness ==
    /\ pc = "eval_iter"
    /\ consumed = 0
    /\ epoch = 1
    /\ nReports = 1
    /\ loss_sum > 0
    /\ val_loss = Frac(0, 1)
    /\ correct = 0

\* the second epoch's training pass is about to start with loss_sum zero,
\* the first epoch's validation totals still in val_loss and correct
C11_WitnessTrainPhase ==
    /\ pc = "train_iter"
    /\ consumed = 0
    /\ epoch = 1
    /\ loss_sum = 0
    /\ val_loss.num > 0
    /\ correct > 0

\* a step that leaves a batch's forward pass without its result
BatchRaises == pc \in {"forward", "val_forward"} /\ pc' \notin {"loss", "val_metrics"}

BatchErrorStep ==
    /\ BatchRaises =>
          /\ pc' = "failed"
          /\ error' = [type |-> "RuntimeError", at |-> pc]
          /\ modelState' = modelState
          /\ counts' = counts
          /\ printed' = NoLine
          /\ cycles' = cycles
          /\ batches' = batches
          /\ epoch' = epoch
          /\ i' = i
    /\ error' # error => error = NoError /\ pc' = "failed"

BatchErrorIsFinal ==
    /\ (pc = "failed") = (error # NoError)
    /\ pc = "failed" => ~ENABLED Next
    /\ pc = "failed" /\ error.at = "forward" =>
          /\ batchTrace = <<"zero_grad">>
          /\ cycles = batches - 1
    /\ pc = "failed" /\ error.at = "val_forward" =>
          /\ cycles = batches
          /\ nReports = epoch

\* C12: an error raised while a training or validation batch is processed
\* ends the run: the step that raises it changes no parameter, gradient or
\* optimizer state (nothing is rolled back) and prints nothing, the error
\* leaves train, and train takes no further step after it: the batch is not
\* retried, no later batch or epoch is started, there is no further
\* optimizer step and no further line.
C12_BatchErrorIsFatal == []BatchErrorIsFinal /\ [][BatchErrorStep]_vars

\* a training batch of the second epoch raised: the updates of the three
\* batches before it are in place and the first epoch's line was printed
C12_Witness ==
    /\ pc = "failed"
    /\ error = [type |-> "RuntimeError", at |-> "forward"]
    /\ epoch = 1
    /\ i = 1
    /\ cycles = 3
    /\ param["dense"] # 0
    /\ nReports = 1

\* the second validation batch of the first epoch raised
C12_WitnessValidation ==
    /\ pc = "failed"
    /\ error = [type |-> "RuntimeError", at |-> "val_forward"]
    /\ epochValBatches = 1
    /\ cycles = 2
    /\ param["dense"] # 0
    /\ nReports = 0

\* train is asked for at least one epoch and the validation loader yields
\* exactly one batch
OneValBatch == num_epochs >= 1 /\ NumBatches(nValExamples) = 1

DivisionByZeroAtAverage == [type |-> "ZeroDivisionError", at |-> "average"]

OneValBatchFails ==
    OneValBatch =>
        /\ epoch \in {NoIndex, 0}
        /\ nReports = 0
        /\ printed.kind # "report"
        /\ pc \notin {"report", "done"}
        /\ Terminated \/ ENABLED Next
        /\ pc = "failed" =>
              \/ error.type = "RuntimeError"
              \/ /\ error = DivisionByZeroAtAverage
                 /\ epoch = 0
                 /\ i = 0
                 /\ epochValBatches = 1
                 /\ passes = <<"train", "eval">>
                 /\ batches = NumBatches(nTrainExamples)
                 /\ cycles = NumBatches(nTrainExamples)

OneValBatchStep ==
    OneValBatch =>
        /\ StepsLeft' < StepsLeft
        /\ (pc = "eval_iter" /\ consumed >= nValExamples =>
               pc' = "failed" /\ error' = DivisionByZeroAtAverage)

\* C13: when the validation loader yields exactly one batch (and no batch
\* raises), train fails in the first epoch with a division by zero at
\* val_loss /= i, where i is 0: every step brings the failure closer, it
\* comes after the first epoch's whole training pass has applied its
\* optimizer steps and the one validation batch was measured, no
\* end-of-epoch line is ever printed and no second epoch is started.
C13_OneValBatchDividesByZero == []OneValBatchFails /\ [][OneValBatchStep]_vars

\* a two-epoch run over two training batches and one short validation
\* batch has failed at the average with both optimizer steps applied
C13_Witness ==
    /\ pc = "failed"
    /\ error = DivisionByZeroAtAverage
    /\ num_epochs = 2
    /\ nTrainExamples = 2 * batch_size - 1
    /\ nValExamples = batch_size - 1
    /\ cycles = 2
    /\ param["dense"] # 0
    /\ nReports = 0

ReturnedMode ==
    /\ pc = "done" /\ num_epochs >= 1 =>
          /\ ~training
          /\ passes # <<>>
          /\ passes[Len(passes)] = "eval"
          /\ ~outputs.dropout
    /\ num_epochs = 0 =>
          /\ pc \in {"epoch", "done"}
          /\ epoch = NoIndex
          /\ error = NoError
          /\ passes = <<>>

NoEpochStep ==
    num_epochs = 0 =>
        /\ pc' = "done"
        /\ training' = training
        /\ modelState' = modelState
        /\ counts' = counts
        /\ printed' = NoLine

\* C14: when train returns normally after at least one epoch the model is
\* in evaluation mode: the last pass of the run was an evaluation pass,
\* entered by model.eval(), and nothing changed the mode after it, so a
\* forward pass made next (whose dropout is the mode flag) runs with
\* dropout disabled, as the last forward pass of the run did. With
\* num_epochs = 0 train's only step is its return, which changes neither
\* the mode flag nor a parameter, a gradient or the optimizer's state, and
\* prints nothing.
C14_ModeAfterReturn == []ReturnedMode /\ [][NoEpochStep]_vars

\* train(fineTune, optimizer, loss, num_epochs=2) has returned
C14_Witness ==
    /\ pc = "done"
    /\ variant = "TransferNet"
    /\ num_epochs = 2
    /\ nReports = 2
    /\ param["dense"] # 0
    /\ ~training

\* train with num_epochs = 0 has returned, the model as constructed
C14_WitnessNoEpochs ==
    /\ pc = "done"
    /\ num_epochs = 0
    /\ nTrainExamples > 0
    /\ training
    /\ \A p \in ModelParams(variant) : param[p] = 0 /\ grad[p] = NoGrad
    /\ nReports = 0

====
